---- MODULE Spec2Model ----
(***************************************************************************)
(* State-machine model of shapash's SmartExplainer session object          *)
(* (src/shapash/explainer/smart_explainer.py): compile, filter, to_pandas, *)
(* compute_features_stability and compute_features_compacity.              *)
(*                                                                         *)
(* Conventions.                                                            *)
(*  - A Python value that may be None (or an attribute that may not exist  *)
(*    yet) is the empty tuple None or the one-element tuple Some(v).       *)
(*  - A table (pandas.DataFrame) is a sequence of rows, each a sequence of *)
(*    cells; column identifiers are the 0-based integers of columns_dict.  *)
(*  - Contributions are integers (a fixed-point view of the reals).        *)
(*  - A handler is one action.  Its effect is computed by an operator of   *)
(*    the handler's name that returns the new values of the attributes it  *)
(*    may write, together with the exception it raises ("" when it         *)
(*    returns normally).                                                   *)
(*  - last, pre_cutoff and mask_groups are history variables: the last     *)
(*    call and its outcome, the value self.mask had at line 756 of the     *)
(*    last filter() execution, and whether that execution read the grouped *)
(*    tables.                                                              *)
(***************************************************************************)
EXTENDS Integers, Sequences, FiniteSets, TLC

(* ------------------------------ bounds -------------------------------- *)
\* contributions range over -MaxContrib..MaxContrib
MaxContrib == 1
\* threshold arguments range over -1..MaxThreshold
MaxThreshold == 1
\* max_contrib arguments range over -1..MaxCutoff
MaxCutoff == 2
\* number of instances (rows) of the prediction set
NRows == 3
\* target distances given to compute_features_compacity: 0..MaxDistance
MaxDistance == 1
\* number of neighbours find_neighbors returns with each instance
NeighborsK == 2
\* fixed-point scale of a normalised contribution: NormScale stands for 1.0
NormScale == 4

(* --------------------------- Python values ---------------------------- *)
None == <<>>
Some(v) == <<v>>
\* an attribute that was never assigned (hasattr is False, reading it raises)
Absent == <<None, None>>
Abs(v) == IF v < 0 THEN -v ELSE v
Min(a, b) == IF a < b THEN a ELSE b

\* Python truthiness of an optional number: `if threshold:`, `if max_contrib:`
TruthyNum(o) == o # None /\ o[1] # 0
\* Python truthiness of an optional list or dict: `if features_to_hide:`
TruthySeq(o) == o # None /\ o[1] # <<>>

RECURSIVE SumSeq(_)
SumSeq(s) == IF s = <<>> THEN 0 ELSE Head(s) + SumSeq(Tail(s))

SeqToSet(s) == {s[i] : i \in DOMAIN s}

(* --------------------------- prediction set --------------------------- *)
\* technical names of the columns of x
FeatNames == <<"f1", "f2", "f3">>
NFeat == Len(FeatNames)
Rows == 1..NRows

\* the prediction set x given to compile: one table, fixed per row and column
XTable == [i \in Rows |-> [j \in 1..NFeat |-> (i * j) % 3]]

\* a contribution that is not a number: an integer outside the range of the
\* contributions, which the arithmetic below never treats as a number
NaN == MaxContrib + 1
NegVal(c) == IF c = NaN THEN NaN ELSE -c
\* |c|, NaN being smaller than every magnitude (it is ranked last)
Magnitude(c) == IF c = NaN THEN -1 ELSE Abs(c)

\* contribution matrices given to compile: BaseRows x row pattern
BaseRows == [1..NFeat -> (-MaxContrib)..MaxContrib]
\* the same with contributions that are not numbers
NaNRows == [1..NFeat -> ((-MaxContrib)..MaxContrib) \cup {NaN}]
Rot(b, k) == [j \in 1..NFeat |-> b[((j + k - 1) % NFeat) + 1]]
MatrixOf(b) ==
    [i \in Rows |-> [j \in 1..NFeat |->
        IF i % 2 = 0 THEN NegVal(Rot(b, i - 1)[j]) ELSE Rot(b, i - 1)[j]]]
Neg(m) == [i \in DOMAIN m |-> [j \in DOMAIN m[i] |-> NegVal(m[i][j])]]

(* ------------------------- Ranking Engine ----------------------------- *)
\* rank of column j in a row: descending |contribution|, ties by column
\* order, NaN last
RankPos(row, j) ==
    1 + Cardinality({k \in DOMAIN row :
            \/ Magnitude(row[k]) > Magnitude(row[j])
            \/ (Magnitude(row[k]) = Magnitude(row[j]) /\ k < j)})
RowPerm(row) == [p \in DOMAIN row |-> CHOOSE j \in DOMAIN row : RankPos(row, j) = p]

\* SmartState.rank_contributions: (contrib_sorted, var_dict, x_sorted)
rank_contributions(contrib, xp) ==
    LET perm == [i \in DOMAIN contrib |-> RowPerm(contrib[i])]
    IN  << [i \in DOMAIN contrib |-> [p \in DOMAIN contrib[i] |-> contrib[i][perm[i][p]]]],
           [i \in DOMAIN contrib |-> [p \in DOMAIN contrib[i] |-> perm[i][p] - 1]],
           [i \in DOMAIN contrib |-> [p \in DOMAIN contrib[i] |-> xp[i][perm[i][p]]]] >>

\* SmartState.assign_contributions: the data dictionary
assign_contributions(ranked) ==
    [contrib_sorted |-> ranked[1], var_dict |-> ranked[2], x_sorted |-> ranked[3],
     summary |-> None]

(* --------------------------- Mask Algebra ----------------------------- *)
init_mask(cs, v) == [i \in DOMAIN cs |-> [j \in DOMAIN cs[i] |-> v]]

hide_contributions(var_dict, ids) ==
    [i \in DOMAIN var_dict |-> [j \in DOMAIN var_dict[i] |-> var_dict[i][j] \notin ids]]

cap_contributions(cs, threshold) ==
    [i \in DOMAIN cs |-> [j \in DOMAIN cs[i] |-> ~(Abs(cs[i][j]) < threshold)]]

sign_contributions(cs, positive) ==
    [i \in DOMAIN cs |-> [j \in DOMAIN cs[i] |->
        IF positive THEN ~(cs[i][j] <= 0) ELSE ~(cs[i][j] >= 0)]]

RECURSIVE combine_masks(_)
combine_masks(masks) ==
    IF Len(masks) = 1 THEN masks[1]
    ELSE LET rest == combine_masks(Tail(masks))
         IN  [i \in DOMAIN masks[1] |-> [j \in DOMAIN masks[1][i] |->
                 masks[1][i][j] /\ rest[i][j]]]

\* one row of the cutoff: scan in rank order, keep while fewer than k are kept
RECURSIVE CutRow(_, _)
CutRow(row, k) ==
    IF row = <<>> THEN <<>>
    ELSE IF Head(row) /\ k > 0 THEN <<TRUE>> \o CutRow(Tail(row), k - 1)
    ELSE <<FALSE>> \o CutRow(Tail(row), k)
cutoff_contributions(mask, k) == [i \in DOMAIN mask |-> CutRow(mask[i], k)]

\* masked value: the contribution where shown, the absent sentinel elsewhere
compute_masked_contributions(cs, mask) ==
    [i \in DOMAIN cs |-> [j \in DOMAIN cs[i] |->
        IF mask[i][j] THEN Some(cs[i][j]) ELSE None]]

(* ------------------------- Group Aggregation -------------------------- *)
\* features_groups is an ordered dict: a sequence of [name, members]
ColIndex(cols, name) == CHOOSE j \in DOMAIN cols : cols[j] = name
GroupedFeatures(groups) == UNION {SeqToSet(groups[k].members) : k \in DOMAIN groups}
Ungrouped(cols, groups) ==
    LET IsFree(n) == n \notin GroupedFeatures(groups) IN SelectSeq(cols, IsFree)
\* columns of the grouped tables: the groups, then the ungrouped features
GroupedCols(cols, groups) ==
    [k \in DOMAIN groups |-> groups[k].name] \o Ungrouped(cols, groups)

\* row-wise sum of the members' cells for a group column, the cell itself otherwise
GroupTable(table, cols, groups) ==
    LET gcols == GroupedCols(cols, groups)
    IN  [i \in DOMAIN table |-> [c \in DOMAIN gcols |->
            IF c <= Len(groups)
            THEN SumSeq([m \in DOMAIN groups[c].members |->
                            table[i][ColIndex(cols, groups[c].members[m])]])
            ELSE table[i][ColIndex(cols, gcols[c])]]]

compute_grouped_contributions(contrib, groups) == GroupTable(contrib, FeatNames, groups)
\* one value per group column (a projection of the members' values)
create_grouped_features_values(xp, groups) == GroupTable(xp, FeatNames, groups)

(* ------------------------ Case Representation ------------------------- *)
\* SmartState works on one table, MultiDecorator(SmartState) maps the same
\* operation over the list of per-class tables
IsMulti(st) == st = "MultiDecorator"

st_rank_contributions(st, contrib, xp) ==
    IF IsMulti(st) THEN [k \in DOMAIN contrib |-> rank_contributions(contrib[k], xp)]
    ELSE rank_contributions(contrib, xp)
st_assign_contributions(st, ranked) ==
    IF IsMulti(st)
    THEN [contrib_sorted |-> [k \in DOMAIN ranked |-> ranked[k][1]],
          var_dict |-> [k \in DOMAIN ranked |-> ranked[k][2]],
          x_sorted |-> [k \in DOMAIN ranked |-> ranked[k][3]],
          summary |-> None]
    ELSE assign_contributions(ranked)
st_compute_grouped_contributions(st, contrib, groups) ==
    IF IsMulti(st) THEN [k \in DOMAIN contrib |-> compute_grouped_contributions(contrib[k], groups)]
    ELSE compute_grouped_contributions(contrib, groups)
st_init_mask(st, cs, v) ==
    IF IsMulti(st) THEN [k \in DOMAIN cs |-> init_mask(cs[k], v)] ELSE init_mask(cs, v)
st_hide_contributions(st, vd, ids) ==
    IF IsMulti(st) THEN [k \in DOMAIN vd |-> hide_contributions(vd[k], ids)]
    ELSE hide_contributions(vd, ids)
st_cap_contributions(st, cs, th) ==
    IF IsMulti(st) THEN [k \in DOMAIN cs |-> cap_contributions(cs[k], th)]
    ELSE cap_contributions(cs, th)
st_sign_contributions(st, cs, positive) ==
    IF IsMulti(st) THEN [k \in DOMAIN cs |-> sign_contributions(cs[k], positive)]
    ELSE sign_contributions(cs, positive)
st_combine_masks(st, masks) ==
    IF IsMulti(st)
    THEN [k \in DOMAIN masks[1] |-> combine_masks([n \in DOMAIN masks |-> masks[n][k]])]
    ELSE combine_masks(masks)
st_cutoff_contributions(st, mask, k) ==
    IF IsMulti(st) THEN [c \in DOMAIN mask |-> cutoff_contributions(mask[c], k)]
    ELSE cutoff_contributions(mask, k)
st_compute_masked_contributions(st, cs, mask) ==
    IF IsMulti(st) THEN [k \in DOMAIN cs |-> compute_masked_contributions(cs[k], mask[k])]
    ELSE compute_masked_contributions(cs, mask)

\* the tables of a per-class artifact, as a list in both cases
Tables(st, a) == IF IsMulti(st) THEN a ELSE <<a>>

(* ------------------------------ state --------------------------------- *)
VARIABLES
    state,                  \* "" before compile, then "SmartState" or "MultiDecorator"
    case,                   \* _case: "" before compile, "regression" or "classification"
    classes,                \* _classes: the class labels, <<>> for a regression
    x_init,                 \* optional table: the prediction set given to compile
    x_pred,                 \* optional table: x_init inverse-transformed
    contributions,          \* optional table (regression) or list of tables
    y_pred,                 \* Absent, None or a column of predictions
    label_dict,             \* optional function: class code -> label value
    inv_label_dict,         \* optional function: label value -> class code
    smartapp,               \* optional: the web application run_app creates
    features_groups,        \* optional ordered dict, None after __init__
    features_dict,          \* function: technical name -> display name
    columns_dict,           \* sequence: position p holds the name of column id p - 1
    data,                   \* optional dict contrib_sorted, var_dict, x_sorted, summary
    contributions_groups,   \* optional, written by _compile_features_groups only
    x_pred_groups,          \* optional, written by _compile_features_groups only
    data_groups,            \* optional, written by _compile_features_groups only
    columns_dict_groups,    \* written by _compile_features_groups only
    mask,                   \* optional: absent until filter() runs
    mask_kind,              \* type of self.mask: the state that built it
    masked_contributions,   \* optional
    mask_params,            \* optional dict of the four filter parameters
    local_neighbors,        \* optional {"norm_shap": ...}
    features_stability,     \* optional {"variability": ..., "amplitude": ...}
    features_compacity,     \* optional {"features_needed": ..., "distance_reached": ...}
    last,                   \* history: the last call and its outcome
    pre_cutoff,             \* history: self.mask as assigned at line 756
    mask_groups,            \* history: the filter() that wrote mask read data_groups
    passed_features_dict,   \* history: the dict of self.features_dict as the caller
                            \* passed it (features_dict is that same object)
    self_explainer,         \* self.explainer: Absent, None or the explainer of a model
    x_interaction,          \* optional: the rows the cached interactions are for
    interaction_values,     \* optional: the cached interaction values
    features_imp,           \* Absent, None or the importance of the features
    features_imp_groups,    \* Absent, None or the importance of the groups
    default_features_dict,  \* the object that is the default of the features_dict
                            \* argument of __init__ (one object for all sessions)
    shares_default,         \* self.features_dict is that object
    groups_kind             \* type of self.contributions_groups: the state that built it

sessionVars == <<state, case, classes, x_init, x_pred, contributions, y_pred,
                 features_groups, features_dict, columns_dict, contributions_groups,
                 x_pred_groups, columns_dict_groups, label_dict, inv_label_dict,
                 smartapp,
                 passed_features_dict, self_explainer, x_interaction, interaction_values,
                 features_imp, features_imp_groups, default_features_dict,
                 shares_default, groups_kind>>
dataVars == <<data, data_groups>>
maskVars == <<mask, mask_kind, masked_contributions, mask_params, pre_cutoff, mask_groups>>
diagVars == <<local_neighbors, features_stability, features_compacity>>
vars == <<sessionVars, dataVars, maskVars, diagVars, last>>

\* the record of a call: its name, its arguments, the exception it raised
\* ("" for none) and whether it executed filter()
Call(op, args, err, filtered) ==
    [op |-> op, args |-> args, err |-> err, filtered |-> filtered]

\* __init__(features_dict, label_dict): lines 117-137
InitWith(fd, ld) ==
    /\ state = "" /\ case = "" /\ classes = <<>>
    /\ x_init = None /\ x_pred = None /\ contributions = None /\ y_pred = Absent
    /\ features_groups = None
    /\ features_dict = fd /\ passed_features_dict = fd
    /\ default_features_dict = <<>> /\ shares_default = (fd = <<>>)
    /\ self_explainer = Absent /\ x_interaction = None /\ interaction_values = None
    /\ features_imp = Absent /\ features_imp_groups = Absent /\ groups_kind = ""
    /\ label_dict = ld /\ inv_label_dict = None /\ smartapp = None
    /\ columns_dict = <<>>
    /\ data = None /\ contributions_groups = None /\ x_pred_groups = None
    /\ data_groups = None /\ columns_dict_groups = <<>>
    /\ mask = None /\ mask_kind = "" /\ masked_contributions = None
    /\ mask_params = None /\ pre_cutoff = None /\ mask_groups = FALSE
    /\ local_neighbors = None /\ features_stability = None /\ features_compacity = None
    /\ last = Call("__init__", <<>>, "", FALSE)

\* __init__(): features_dict={}, label_dict=None
Init == InitWith(<<>>, None)

(* ------------------------------ compile ------------------------------- *)
\* check_model: the case and the classes of the model given to compile
\* ("coded": a two-class model whose class codes are not the positions)
ModelKinds == {"regression", "binary", "multiclass"}
check_model(kind) ==
    IF kind = "regression" THEN <<"regression", <<>> >>
    ELSE IF kind = "binary" THEN <<"classification", <<0, 1>> >>
    ELSE IF kind = "coded" THEN <<"classification", <<1, 2>> >>
    ELSE <<"classification", <<0, 1, 2>> >>

\* the contributions argument for a model kind: one table, or one per class
ContribInput(kind, b) ==
    IF kind = "multiclass"
    THEN [k \in DOMAIN check_model(kind)[2] |-> MatrixOf(Rot(b, k - 1))]
    ELSE MatrixOf(b)
\* adapt_contributions: one table of a classification becomes [-c, c]
adapt_contributions(c_case, kind, contrib) ==
    IF c_case = "classification" /\ kind # "multiclass" THEN <<Neg(contrib), contrib>>
    ELSE contrib
\* choose_state: a list of tables selects the multi-variant state
choose_state(c_case) ==
    IF c_case = "classification" THEN "MultiDecorator" ELSE "SmartState"

\* faulty variant (sensitivity of C16_MissingNamesFallBack): the missing
\* entries are not added
check_features_dict_as_given(fd, cols) == fd

\* check_features_dict: every column gets a display name, its own by default
check_features_dict(fd, cols) ==
    [n \in DOMAIN fd \cup SeqToSet(cols) |-> IF n \in DOMAIN fd THEN fd[n] ELSE n]
\* _update_features_dict_with_groups
update_features_dict_with_groups(fd, groups) ==
    LET names == {groups[k].name : k \in DOMAIN groups}
    IN  [n \in DOMAIN fd \cup names |-> IF n \in DOMAIN fd THEN fd[n] ELSE n]

\* check_label_dict: a label_dict whose keys are not the classes is rejected
check_label_dict_rejects(ld, c_case, c_classes) ==
    c_case # "regression" /\ ld # None /\ DOMAIN ld[1] # SeqToSet(c_classes)

\* faulty variant (sensitivity of C14_InvalidGroupsRejected): only the
\* unknown members are rejected
features_groups_rejected_unknown_only(cols, groups) ==
    \E k \in DOMAIN groups : \E q \in DOMAIN groups[k].members :
        groups[k].members[q] \notin SeqToSet(cols)

\* {v: k for k, v in self.label_dict.items()}
Inverse(d) ==
    [v \in {d[k] : k \in DOMAIN d} |-> CHOOSE k \in DOMAIN d : d[k] = v]

\* a feature in two groups, or a group member that is no column, is rejected
features_groups_rejected(cols, groups) ==
    \/ \E k \in DOMAIN groups : \E q \in DOMAIN groups[k].members :
           groups[k].members[q] \notin SeqToSet(cols)
    \/ \E k1, k2 \in DOMAIN groups :
           /\ k1 # k2
           /\ SeqToSet(groups[k1].members) \cap SeqToSet(groups[k2].members) # {}

\* the predictions and the groups a caller may pass
YPred == [i \in Rows |-> i % 2]
GroupsG == << [name |-> "g", members |-> <<"f1", "f2">>] >>

\* faulty variant (sensitivity of C12_RankInvariant): the ranking step is
\* left out, the tables are assigned in the original column order
compile_data_unranked(st, contrib, xp) ==
    LET Unranked(c) == <<c, [i \in DOMAIN c |-> [q \in DOMAIN c[i] |-> q - 1]], xp>>
    IN  st_assign_contributions(st,
            IF IsMulti(st) THEN [k \in DOMAIN contrib |-> Unranked(contrib[k])]
            ELSE Unranked(contrib))

\* lines 243-248 and 276-281: the data dictionary of a contributions object
compile_data(st, contrib, xp) ==
    st_assign_contributions(st, st_rank_contributions(st, contrib, xp))

\* faulty variant (sensitivity of C13_GroupConservation): the groups are
\* summed over the ranked contributions instead of self.contributions
grouped_contributions_of_ranked(st, contrib, groups) ==
    st_compute_grouped_contributions(st,
        compile_data(st, contrib, XTable).contrib_sorted, groups)

\* line 266: self.contributions_groups
grouped_contributions(st, contrib, groups) ==
    st_compute_grouped_contributions(st, contrib, groups)

\* faulty variant (sensitivity of C18_BothArgumentsRejected): the two
\* arguments are accepted together
just_one_unchecked(explainer, contrib) == FALSE

\* line 223: explainer is not None and contributions is not None
both_specified(explainer, contrib) == explainer /\ contrib

\* line 250: self.features_imp = None
compile_features_imp == None

\* the arguments of a compile() call, as last records them
CompileArgs(kind, explainer, contrib, fg) ==
    [kind |-> kind, explainer |-> explainer, contributions |-> contrib, groups |-> fg]

\* compile(x, model, explainer, contributions, y_pred, features_groups):
\* lines 215-259.  explainer and given tell whether an explainer and
\* contributions are passed; contributions that are not passed are computed
\* by the explainer of the model (line 226).  A call that raises keeps what
\* the lines before wrote.
CompileWith(kind, b, explainer, given, yp, fg) ==
    LET cm == check_model(kind)
        st == choose_state(cm[1])
        contrib == adapt_contributions(cm[1], kind, ContribInput(kind, b))
        fd == check_features_dict(features_dict, FeatNames)
        cg == grouped_contributions(st, contrib, fg[1])
        xg == create_grouped_features_values(XTable, fg[1])
        rejected == check_label_dict_rejects(label_dict, cm[1], cm[2])
        early == rejected \/ both_specified(explainer, given)
        late == TruthySeq(fg) /\ features_groups_rejected(FeatNames, fg[1])
    IN  /\ x_init' = Some(XTable) /\ x_pred' = Some(XTable)
        /\ case' = cm[1] /\ classes' = cm[2]
        /\ inv_label_dict' = IF ~rejected /\ label_dict # None
                              THEN Some(Inverse(label_dict[1])) ELSE inv_label_dict
        /\ IF early
           THEN \* lines 220 and 223-224 raise
                /\ UNCHANGED <<state, contributions, y_pred, columns_dict, features_dict,
                               features_groups, contributions_groups, x_pred_groups,
                               columns_dict_groups, dataVars, diagVars,
                               self_explainer, features_imp, features_imp_groups,
                               default_features_dict, groups_kind>>
                /\ last' = Call("compile", CompileArgs(kind, explainer, given, fg),
                                "ValueError", FALSE)
           ELSE /\ state' = st
                /\ contributions' = Some(contrib)
                /\ self_explainer' = IF given THEN None ELSE Some(kind)
                /\ y_pred' = yp
                /\ columns_dict' = FeatNames
                /\ data' = Some(compile_data(st, contrib, XTable))
                /\ features_imp' = compile_features_imp
                /\ features_groups' = fg
                /\ IF TruthySeq(fg) /\ ~late
                   THEN /\ contributions_groups' = Some(cg)
                        /\ features_dict' = update_features_dict_with_groups(fd, fg[1])
                        /\ x_pred_groups' = Some(xg)
                        /\ data_groups' = Some(compile_data(st, cg, xg))
                        /\ columns_dict_groups' = GroupedCols(FeatNames, fg[1])
                        /\ features_imp_groups' = None
                        /\ groups_kind' = st
                   ELSE /\ features_dict' = fd
                        /\ UNCHANGED <<contributions_groups, x_pred_groups, data_groups,
                                       columns_dict_groups, features_imp_groups,
                                       groups_kind>>
                /\ default_features_dict' = IF shares_default THEN features_dict'
                                            ELSE default_features_dict
                /\ IF late
                   THEN \* line 266 raises
                        UNCHANGED diagVars
                   ELSE /\ local_neighbors' = None /\ features_stability' = None
                        /\ features_compacity' = None
                /\ last' = Call("compile", CompileArgs(kind, explainer, given, fg),
                                IF late THEN "ValueError" ELSE "", FALSE)
        /\ UNCHANGED <<maskVars, label_dict, smartapp, passed_features_dict,
                       x_interaction, interaction_values, shares_default>>

\* compile(x, model, explainer, contributions=..., y_pred, features_groups)
Compile(kind, b, explainer, yp, fg) == CompileWith(kind, b, explainer, TRUE, yp, fg)

(* ------------------------------- filter ------------------------------- *)
\* check_features_name: names (technical or display) to column ids, None when
\* a name is unknown (the call raises)
NameIds(cols, fd, n) ==
    {j - 1 : j \in {q \in DOMAIN cols :
                      \/ cols[q] = n
                      \/ (cols[q] \in DOMAIN fd /\ fd[cols[q]] = n)}}
check_features_name(cols, fd, features) ==
    IF \A k \in DOMAIN features : NameIds(cols, fd, features[k]) # {}
    THEN Some(UNION {NameIds(cols, fd, features[k]) : k \in DOMAIN features})
    ELSE None

\* configurations the mask primitives reject
cap_contributions_rejects(threshold) == threshold < 0
cutoff_contributions_rejects(k) == k <= 0

\* line 729 (and 888 of to_pandas)
DisplayGroups(display_groups) == display_groups # Some(FALSE) /\ features_groups # None
\* lines 730-733
FilterData(dg) == IF dg THEN data_groups ELSE data
FilterColumns(dg) == IF dg THEN columns_dict_groups ELSE columns_dict

\* faulty variant (sensitivity of C1_CombinedMaskIsConjunction): `if positive:`
filter_masks_sign_truthy(d, dg, features_to_hide, threshold, positive) ==
    <<st_init_mask(state, d.contrib_sorted, TRUE)>>
    \o (IF TruthySeq(features_to_hide)
        THEN <<st_hide_contributions(state, d.var_dict,
                 check_features_name(FilterColumns(dg), features_dict,
                                     features_to_hide[1])[1])>>
        ELSE <<>>)
    \o (IF TruthyNum(threshold)
        THEN <<st_cap_contributions(state, d.contrib_sorted, threshold[1])>>
        ELSE <<>>)
    \o (IF positive # None /\ positive[1]
        THEN <<st_sign_contributions(state, d.contrib_sorted, positive[1])>>
        ELSE <<>>)

\* faulty variant (sensitivity of C4_AddingCriterionNeverShowsMore): the
\* threshold mask replaces the list instead of being appended to it
filter_masks_threshold_resets(d, dg, features_to_hide, threshold, positive) ==
    (IF TruthyNum(threshold)
     THEN <<st_cap_contributions(state, d.contrib_sorted, threshold[1])>>
     ELSE <<st_init_mask(state, d.contrib_sorted, TRUE)>>
          \o (IF TruthySeq(features_to_hide)
              THEN <<st_hide_contributions(state, d.var_dict,
                       check_features_name(FilterColumns(dg), features_dict,
                                           features_to_hide[1])[1])>>
              ELSE <<>>))
    \o (IF positive # None
        THEN <<st_sign_contributions(state, d.contrib_sorted, positive[1])>>
        ELSE <<>>)

\* lines 734-755: the list of masks, one per supplied criterion
filter_masks(d, dg, features_to_hide, threshold, positive) ==
    <<st_init_mask(state, d.contrib_sorted, TRUE)>>
    \o (IF TruthySeq(features_to_hide)
        THEN <<st_hide_contributions(state, d.var_dict,
                 check_features_name(FilterColumns(dg), features_dict,
                                     features_to_hide[1])[1])>>
        ELSE <<>>)
    \o (IF TruthyNum(threshold)
        THEN <<st_cap_contributions(state, d.contrib_sorted, threshold[1])>>
        ELSE <<>>)
    \o (IF positive # None
        THEN <<st_sign_contributions(state, d.contrib_sorted, positive[1])>>
        ELSE <<>>)

\* faulty variant (sensitivity of C2_CutoffKeepsFirstSurvivors): the cutoff
\* keeps the first N ranked positions, whatever the other filters hid
filter_cutoff_ranked(combined, max_contrib) ==
    IF TruthyNum(max_contrib)
    THEN st_combine_masks(state,
            <<combined,
              st_cutoff_contributions(state,
                  IF IsMulti(state)
                  THEN [k \in DOMAIN combined |-> init_mask(combined[k], TRUE)]
                  ELSE init_mask(combined, TRUE),
                  max_contrib[1])>>)
    ELSE combined

\* faulty variant (sensitivity of C5_SameParametersSameMask): a call without
\* max_contrib falls back on the max_contrib of the previous call
filter_cutoff_sticky(combined, max_contrib) ==
    IF TruthyNum(max_contrib)
    THEN st_cutoff_contributions(state, combined, max_contrib[1])
    ELSE IF mask_params # None /\ TruthyNum(mask_params[1].max_contrib)
            /\ mask_params[1].max_contrib[1] > 0
    THEN st_cutoff_contributions(state, combined, mask_params[1].max_contrib[1])
    ELSE combined

\* faulty variant (sensitivity of C11_MultiIsElementWise): on a list of
\* tables the cutoff is applied to the first table only
filter_cutoff_first_class(combined, max_contrib) ==
    IF TruthyNum(max_contrib)
    THEN IF IsMulti(state)
         THEN [k \in DOMAIN combined |->
                  IF k = 1 THEN cutoff_contributions(combined[k], max_contrib[1])
                  ELSE combined[k]]
         ELSE cutoff_contributions(combined, max_contrib[1])
    ELSE combined

\* lines 757-758
filter_cutoff(combined, max_contrib) ==
    IF TruthyNum(max_contrib)
    THEN st_cutoff_contributions(state, combined, max_contrib[1])
    ELSE combined

MaskParams(features_to_hide, threshold, positive, max_contrib) ==
    [features_to_hide |-> features_to_hide, threshold |-> threshold,
     positive |-> positive, max_contrib |-> max_contrib]
\* the arguments of a filter() or to_pandas() call, as last records them
CallArgs(features_to_hide, threshold, positive, max_contrib, groups) ==
    [features_to_hide |-> features_to_hide, threshold |-> threshold,
     positive |-> positive, max_contrib |-> max_contrib, groups |-> groups]

\* what a handler leaves of the mask attributes when it writes none of them
MaskUnchanged(e) ==
    [err |-> e, mask |-> mask, mask_kind |-> mask_kind,
     masked_contributions |-> masked_contributions, mask_params |-> mask_params,
     pre_cutoff |-> pre_cutoff, mask_groups |-> mask_groups]

\* filter(): lines 729-768
filter(features_to_hide, threshold, positive, max_contrib, display_groups) ==
    LET dg == DisplayGroups(display_groups)
        src == FilterData(dg)
    IN  IF src = None THEN MaskUnchanged("AttributeError")
        ELSE IF /\ TruthySeq(features_to_hide)
                /\ check_features_name(FilterColumns(dg), features_dict,
                                       features_to_hide[1]) = None
        THEN MaskUnchanged("ValueError")
        ELSE IF TruthyNum(threshold) /\ cap_contributions_rejects(threshold[1])
        THEN MaskUnchanged("ValueError")
        ELSE
            LET d == src[1]
                combined == st_combine_masks(state,
                                filter_masks(d, dg, features_to_hide, threshold, positive))
                final == filter_cutoff(combined, max_contrib)
            IN  IF TruthyNum(max_contrib) /\ cutoff_contributions_rejects(max_contrib[1])
                THEN \* line 758 raises: line 756 has already stored the mask
                     [MaskUnchanged("ValueError") EXCEPT
                        !.mask = Some(combined), !.mask_kind = state,
                        !.pre_cutoff = Some(combined), !.mask_groups = dg]
                ELSE [err |-> "",
                      mask |-> Some(final),
                      mask_kind |-> state,
                      masked_contributions |->
                          Some(st_compute_masked_contributions(state, d.contrib_sorted, final)),
                      mask_params |->
                          Some(MaskParams(features_to_hide, threshold, positive, max_contrib)),
                      pre_cutoff |-> Some(combined),
                      mask_groups |-> dg]

ApplyMask(r) ==
    /\ mask' = r.mask /\ mask_kind' = r.mask_kind
    /\ masked_contributions' = r.masked_contributions
    /\ mask_params' = r.mask_params
    /\ pre_cutoff' = r.pre_cutoff
    /\ mask_groups' = r.mask_groups

Filter(features_to_hide, threshold, positive, max_contrib, display_groups) ==
    \E r \in {filter(features_to_hide, threshold, positive, max_contrib, display_groups)} :
        /\ ApplyMask(r)
        /\ last' = Call("filter",
                        CallArgs(features_to_hide, threshold, positive, max_contrib,
                                 display_groups),
                        r.err, TRUE)
        /\ UNCHANGED <<sessionVars, dataVars, diagVars>>

(* ------------------------------ to_pandas ----------------------------- *)
\* display name of a column: features_dict where it has the name
DisplayName(fd, n) == IF n \in DOMAIN fd THEN fd[n] ELSE n

\* SmartState.summarize: per row the (feature, value, contribution) triples
\* of the shown positions in rank order, then absent placeholders
summarize(cs, vd, xs, m, cols, fd) ==
    [i \in DOMAIN cs |->
        LET Shown(j) == m[i][j]
            kept == SelectSeq([j \in DOMAIN cs[i] |-> j], Shown)
        IN  [p \in DOMAIN cs[i] |->
                IF p <= Len(kept)
                THEN Some(<<DisplayName(fd, cols[vd[i][kept[p]] + 1]),
                            xs[i][kept[p]], cs[i][kept[p]]>>)
                ELSE None]]
st_summarize(st, cs, vd, xs, m, cols, fd) ==
    IF IsMulti(st)
    THEN [k \in DOMAIN cs |-> summarize(cs[k], vd[k], xs[k], m[k], cols, fd)]
    ELSE summarize(cs, vd, xs, m, cols, fd)

\* number of columns of a table
NCols(t) == Len(t[1])

\* lines 901-911: the stored mask is kept
to_pandas_reuses(d, features_to_hide, threshold, positive, max_contrib) ==
    /\ features_to_hide = None /\ threshold = None
    /\ positive = None /\ max_contrib = None
    /\ mask_params # None
    /\ IF IsMulti(state)
       THEN NCols(d.contrib_sorted[1]) = NCols(mask[1][1])
       ELSE NCols(d.contrib_sorted) = NCols(mask[1])

\* lines 901-911 read self.mask: it may not exist, or be of the other type
to_pandas_mask_error(features_to_hide, threshold, positive, max_contrib) ==
    IF /\ features_to_hide = None /\ threshold = None
       /\ positive = None /\ max_contrib = None
       /\ mask_params # None
       /\ (mask = None \/ mask_kind # state)
    THEN IF mask # None /\ IsMulti(state) THEN "KeyError" ELSE "AttributeError"
    ELSE ""

\* lines 900-918: the mask attributes after the reuse test or the filter call
to_pandas_filter(d, features_to_hide, threshold, positive, max_contrib, use_groups) ==
    IF to_pandas_mask_error(features_to_hide, threshold, positive, max_contrib) # ""
    THEN [m |-> MaskUnchanged(to_pandas_mask_error(features_to_hide, threshold,
                                                   positive, max_contrib)),
          filtered |-> FALSE]
    ELSE IF to_pandas_reuses(d, features_to_hide, threshold, positive, max_contrib)
    THEN [m |-> MaskUnchanged(""), filtered |-> FALSE]
    ELSE [m |-> filter(features_to_hide, threshold, positive, max_contrib,
                       Some(use_groups)),
          filtered |-> TRUE]

\* lines 919-931: data['summary'], with the column names of the variant
to_pandas_summary(d, ug, m) ==
    st_summarize(state, d.contrib_sorted, d.var_dict, d.x_sorted, m,
                 FilterColumns(ug),
                 features_dict)

\* faulty variant (sensitivity of C7_ToPandasNeedsYPred): y_pred is only
\* looked at when the summary is matched with it, after lines 900-931
to_pandas_checks_late(features_to_hide, threshold, positive, max_contrib, use_groups) ==
    LET ug == DisplayGroups(use_groups)
        src == FilterData(ug)
    IN  IF src = None
        THEN [m |-> MaskUnchanged("AttributeError"), filtered |-> FALSE, summary |-> None]
        ELSE LET f == to_pandas_filter(src[1], features_to_hide, threshold, positive,
                                       max_contrib, ug)
             IN  IF f.m.err # ""
                 THEN [m |-> f.m, filtered |-> f.filtered, summary |-> None]
                 ELSE [m |-> IF y_pred = None THEN [f.m EXCEPT !.err = "ValueError"]
                             ELSE f.m,
                       filtered |-> f.filtered,
                       summary |-> Some(to_pandas_summary(src[1], ug, f.m.mask[1]))]

\* to_pandas(): lines 888-943.  m holds the mask attributes and the
\* exception, summary the new data['summary'] when it is written
to_pandas(features_to_hide, threshold, positive, max_contrib, use_groups) ==
    LET ug == DisplayGroups(use_groups)
        src == FilterData(ug)
    IN  IF src = None
        THEN [m |-> MaskUnchanged("AttributeError"), filtered |-> FALSE, summary |-> None]
        ELSE IF y_pred = None
        THEN [m |-> MaskUnchanged("ValueError"), filtered |-> FALSE, summary |-> None]
        ELSE LET f == to_pandas_filter(src[1], features_to_hide, threshold, positive,
                                       max_contrib, ug)
             IN  IF f.m.err # ""
                 THEN [m |-> f.m, filtered |-> f.filtered, summary |-> None]
                 ELSE [m |-> f.m, filtered |-> f.filtered,
                       summary |-> Some(to_pandas_summary(src[1], ug, f.m.mask[1]))]

ToPandas(features_to_hide, threshold, positive, max_contrib, use_groups) ==
    \E r \in {to_pandas(features_to_hide, threshold, positive, max_contrib, use_groups)} :
        /\ ApplyMask(r.m)
        /\ IF r.summary = None THEN UNCHANGED dataVars
           ELSE IF DisplayGroups(use_groups)
           THEN /\ data_groups' = Some([data_groups[1] EXCEPT !.summary = r.summary])
                /\ UNCHANGED data
           ELSE /\ data' = Some([data[1] EXCEPT !.summary = r.summary])
                /\ UNCHANGED data_groups
        /\ last' = Call("to_pandas",
                        CallArgs(features_to_hide, threshold, positive, max_contrib,
                                 use_groups),
                        r.m.err, r.filtered)
        /\ UNCHANGED <<sessionVars, diagVars>>

(* ------------------------ Neighbor Diagnostics ------------------------ *)
L1(a, b) == SumSeq([j \in DOMAIN a |-> Abs(a[j] - b[j])])
SetMax(S) == CHOOSE v \in S : \A w \in S : w <= v
SetMin(S) == CHOOSE v \in S : \A w \in S : v <= w

\* find_neighbors: for each selected instance, the instance followed by its
\* NeighborsK nearest other rows of x (ties by row order)
NbrRank(x, i, r) ==
    1 + Cardinality({q \in DOMAIN x \ {i} :
            \/ L1(x[q], x[i]) < L1(x[r], x[i])
            \/ (L1(x[q], x[i]) = L1(x[r], x[i]) /\ q < r)})
find_neighbors(selection, x) ==
    [s \in DOMAIN selection |->
        LET i == selection[s]
            Near(r) == r # i /\ NbrRank(x, i, r) <= NeighborsK
        IN  <<i>> \o SelectSeq([r \in DOMAIN x |-> r], Near)]

\* the table the diagnostics read: the last class of a classification
DiagContributions(contrib) == IF IsMulti(state) THEN contrib[Len(contrib)] ELSE contrib

\* a row divided by its largest absolute contribution, in 1/NormScale units
MaxAbs(row) == SetMax({Abs(row[j]) : j \in DOMAIN row})
Normalize(row) ==
    [j \in DOMAIN row |->
        IF MaxAbs(row) = 0 THEN 0
        ELSE IF row[j] < 0 THEN -((Abs(row[j]) * NormScale) \div MaxAbs(row))
        ELSE (row[j] * NormScale) \div MaxAbs(row)]

\* shap_neighbors: (norm_shap, variability, amplitude) of an instance and
\* its neighbours
shap_neighbors(instance, contrib) ==
    LET norm == [n \in DOMAIN instance |-> Normalize(contrib[instance[n]])]
        Col(j) == {norm[n][j] : n \in DOMAIN norm}
    IN  << norm,
           [j \in 1..NFeat |-> SetMax(Col(j)) - SetMin(Col(j))],
           [j \in 1..NFeat |-> SumSeq([n \in DOMAIN norm |-> Abs(norm[n][j])]) \div Len(norm)] >>

\* distance between the full sum of a row and the sum of its k top-ranked
\* contributions; 1 stands for 100%
Partial(row, k) ==
    LET perm == RowPerm(row)
    IN  SumSeq([p \in 1..Min(k, Len(row)) |-> row[perm[p]]])
Distance(row, k) == Abs(SumSeq(row) - Partial(row, k))
\* get_min_nb_features: per instance the least number of top-ranked features
\* within the target distance
get_min_nb_features(selection, contrib, distance) ==
    [s \in DOMAIN selection |->
        SetMin({k \in 0..NFeat : Distance(contrib[selection[s]], k) <= distance})]
\* get_distance: per instance the distance reached with nb_features features
get_distance(selection, contrib, nb_features) ==
    [s \in DOMAIN selection |-> Distance(contrib[selection[s]], nb_features)]
\* np.clip
clip(v, lo, hi) == [s \in DOMAIN v |-> IF v[s] < lo THEN lo ELSE IF v[s] > hi THEN hi ELSE v[s]]

\* faulty variant (sensitivity of C8_MultiClassRejectedFirst): binary
\* classifications are rejected too
multiclass_unsupported_two(c_case, c_classes) ==
    c_case = "classification" /\ Len(c_classes) >= 2

\* lines 988 and 1024
multiclass_unsupported(c_case, c_classes) ==
    c_case = "classification" /\ Len(c_classes) > 2

\* what a handler leaves of the diagnostics when it writes none of them
DiagUnchanged(e) ==
    [err |-> e, local_neighbors |-> local_neighbors,
     features_stability |-> features_stability,
     features_compacity |-> features_compacity]

\* faulty variant (sensitivity of C10_StabilityByCardinality): every
\* selection is handled as a single instance
single_instance_always(selection) == Len(selection) >= 1

\* line 994
single_instance(selection) == Len(selection) = 1

\* compute_features_stability(): lines 988-1005
compute_features_stability(selection) ==
    IF multiclass_unsupported(case, classes) THEN DiagUnchanged("AssertionError")
    ELSE LET all_neighbors == find_neighbors(selection, x_init[1])
             contrib == DiagContributions(contributions[1])
         IN  IF single_instance(selection)
             THEN [DiagUnchanged("") EXCEPT
                     !.local_neighbors =
                         Some([norm_shap |-> shap_neighbors(all_neighbors[1], contrib)[1]])]
             ELSE [DiagUnchanged("") EXCEPT
                     !.features_stability =
                         Some([variability |->
                                  [i \in DOMAIN selection |->
                                      shap_neighbors(all_neighbors[i], contrib)[2]],
                               amplitude |->
                                  [i \in DOMAIN selection |->
                                      shap_neighbors(all_neighbors[i], contrib)[3]]])]

\* faulty variant (sensitivity of C9_CompacityRanges): line 1030 is missing
compute_features_compacity_unclipped(selection, distance, nb_features) ==
    IF multiclass_unsupported(case, classes) THEN DiagUnchanged("AssertionError")
    ELSE LET contrib == DiagContributions(contributions[1])
         IN  [DiagUnchanged("") EXCEPT
                 !.features_compacity =
                     Some([features_needed |->
                              get_min_nb_features(selection, contrib, distance),
                           distance_reached |->
                              get_distance(selection, contrib, nb_features)])]

\* compute_features_compacity(): lines 1024-1032
compute_features_compacity(selection, distance, nb_features) ==
    IF multiclass_unsupported(case, classes) THEN DiagUnchanged("AssertionError")
    ELSE LET contrib == DiagContributions(contributions[1])
         IN  [DiagUnchanged("") EXCEPT
                 !.features_compacity =
                     Some([features_needed |->
                              get_min_nb_features(selection, contrib, distance),
                           distance_reached |->
                              clip(get_distance(selection, contrib, nb_features), 0, 1)])]

ApplyDiag(r) ==
    /\ local_neighbors' = r.local_neighbors
    /\ features_stability' = r.features_stability
    /\ features_compacity' = r.features_compacity

ComputeFeaturesStability(selection) ==
    \E r \in {compute_features_stability(selection)} :
        /\ ApplyDiag(r)
        /\ last' = Call("compute_features_stability", <<selection>>, r.err, FALSE)
        /\ UNCHANGED <<sessionVars, dataVars, maskVars>>

ComputeFeaturesCompacity(selection, distance, nb_features) ==
    \E r \in {compute_features_compacity(selection, distance, nb_features)} :
        /\ ApplyDiag(r)
        /\ last' = Call("compute_features_compacity",
                        <<selection, distance, nb_features>>, r.err, FALSE)
        /\ UNCHANGED <<sessionVars, dataVars, maskVars>>

(* --------------------------- specifications --------------------------- *)
\* arguments of the calls
OptBool == {None, Some(TRUE), Some(FALSE)}
Thresholds == {None} \cup {Some(t) : t \in (-1)..MaxThreshold}
Cutoffs == {None} \cup {Some(n) : n \in (-1)..MaxCutoff}
HideLists == {None, Some(<<"f3">>), Some(<<"zz">>)}
GroupFlags == {None, Some(FALSE)}
GroupChoices == {None, Some(GroupsG)}
AllRows == [i \in Rows |-> i]

\* one filter() call on every compiled session, with every combination of
\* arguments, the invalid ones included
CompileForFilter ==
    /\ state = ""
    /\ \E kind \in {"regression", "binary"}, b \in BaseRows, fg \in GroupChoices :
           Compile(kind, b, FALSE, None, fg)
FilterOnce ==
    /\ last.op = "compile"
    /\ \E h \in HideLists, t \in Thresholds, p \in OptBool, n \in Cutoffs,
          g \in GroupFlags :
           Filter(h, t, p, n, g)
NextFilter == CompileForFilter \/ FilterOnce
SpecFilter == Init /\ [][NextFilter]_vars

\* sequences of filter() and to_pandas() calls on a compiled session
SessionRows == {<<1, -1, 0>>, <<-1, 1, 1>>}
SessionSigns == {None, Some(TRUE)}
SessionCutoffs == {None} \cup {Some(n) : n \in 1..MaxCutoff}
CompileSession ==
    /\ state = ""
    /\ \E kind \in ModelKinds, b \in SessionRows,
          yp \in {None, Some(YPred)}, fg \in GroupChoices :
           Compile(kind, b, FALSE, yp, fg)
FilterCalls ==
    /\ state # ""
    /\ \E p \in SessionSigns, n \in SessionCutoffs, g \in GroupFlags :
           Filter(None, None, p, n, g)
ToPandasCalls ==
    /\ state # ""
    /\ \E p \in SessionSigns, n \in SessionCutoffs, g \in GroupFlags :
           ToPandas(None, None, p, n, g)
Next == CompileSession \/ FilterCalls \/ ToPandasCalls
Spec == Init /\ [][Next]_vars

\* one compile() call, on every contribution matrix (contributions that are
\* not numbers included) without groups, and on every matrix of numbers with
\* every declaration of groups, the invalid ones included
GroupsOverlap == << [name |-> "g", members |-> <<"f1", "f2">>],
                    [name |-> "h", members |-> <<"f2", "f3">>] >>
GroupsUnknown == << [name |-> "g", members |-> <<"f1", "zz">>] >>
GroupDeclarations == {Some(GroupsG), Some(GroupsOverlap), Some(GroupsUnknown)}
CompileOnce ==
    /\ state = ""
    /\ \E kind \in {"regression", "binary"} :
           \/ \E b \in NaNRows : Compile(kind, b, FALSE, None, None)
           \/ \E b \in BaseRows, fg \in GroupDeclarations :
                  Compile(kind, b, FALSE, None, fg)
NextCompile == CompileOnce
SpecCompile == Init /\ [][NextCompile]_vars

\* the diagnostics on every compiled session, multi-class included
StabilitySelections == {<<1>>, <<1, 2>>, AllRows}
CompileForDiag ==
    /\ state = ""
    /\ \E kind \in ModelKinds, b \in BaseRows : Compile(kind, b, FALSE, None, None)
StabilityCalls ==
    /\ state # ""
    /\ \E sel \in StabilitySelections : ComputeFeaturesStability(sel)
CompacityCalls ==
    /\ state # ""
    /\ \E d \in 0..MaxDistance, nb \in 0..1 : ComputeFeaturesCompacity(AllRows, d, nb)
NextDiag == CompileForDiag \/ StabilityCalls \/ CompacityCalls
SpecDiag == Init /\ [][NextDiag]_vars

(* ------------------------- add, labels, run_app ----------------------- *)
\* the arguments of an add() call, as last records them
AddArgs(yp, ld, fd) == [y_pred |-> yp, label_dict |-> ld, features_dict |-> fd]

\* add(y_pred, label_dict, features_dict): lines 306-327.  An attribute that
\* compile has not written yet raises AttributeError when it is read; a call
\* that raises keeps what the lines before wrote.
Add(yp, ld, fd) ==
    LET e_y_pred == yp # None /\ x_pred = None
        e_attr == ~e_y_pred /\ ld # None /\ case = ""
        e_label == ~e_y_pred /\ ld # None /\ case # ""
                   /\ check_label_dict_rejects(ld, case, classes)
        e_columns == ~e_y_pred /\ ~e_attr /\ ~e_label /\ fd # None /\ columns_dict = <<>>
    IN  /\ y_pred' = IF yp # None /\ ~e_y_pred THEN yp ELSE y_pred
        /\ label_dict' = IF ld # None /\ ~e_y_pred THEN ld ELSE label_dict
        /\ inv_label_dict' = IF ld # None /\ ~e_y_pred /\ ~e_attr /\ ~e_label
                             THEN Some(Inverse(ld[1])) ELSE inv_label_dict
        /\ IF fd # None /\ ~e_y_pred /\ ~e_attr /\ ~e_label
           THEN /\ features_dict' = IF e_columns THEN fd[1]
                                    ELSE check_features_dict(fd[1], columns_dict)
                /\ passed_features_dict' = fd[1]
                /\ shares_default' = FALSE
           ELSE UNCHANGED <<features_dict, passed_features_dict, shares_default>>
        /\ last' = Call("add", AddArgs(yp, ld, fd),
                        IF e_y_pred \/ e_attr \/ e_columns THEN "AttributeError"
                        ELSE IF e_label THEN "ValueError" ELSE "", FALSE)
        /\ UNCHANGED <<state, case, classes, x_init, x_pred, contributions,
                       features_groups, columns_dict, contributions_groups,
                       x_pred_groups, columns_dict_groups, smartapp,
                       self_explainer, x_interaction, interaction_values,
                       features_imp, features_imp_groups, default_features_dict,
                       groups_kind, dataVars, maskVars, diagVars>>

\* a label is an integer or a string
IntLabel(n) == <<"int", n>>
StrLabel(t) == <<"str", t>>
IsInt(label) == label[1] = "int"
\* seq[i] of Python, a negative i counting from the end
PyIndexable(seq, i) == i \in (-Len(seq))..(Len(seq) - 1)
PyIndex(seq, i) == IF i >= 0 THEN seq[i + 1] ELSE seq[Len(seq) + i + 1]
\* list.index
ListIndex(seq, v) == (CHOOSE j \in DOMAIN seq : seq[j] = v /\ \A q \in 1..(j - 1) : seq[q] # v) - 1

\* the record of a call that returns a value
CallRet(op, args, err, ret) ==
    [op |-> op, args |-> args, err |-> err, filtered |-> FALSE, ret |-> ret]

\* faulty variant (sensitivity of C19_IntegerLabel): the position is tried
\* before the class code
label_origin_num_first(c_classes, ld, label, origin) ==
    IF origin # None THEN origin[1]
    ELSE IF IsInt(label) /\ label[2] \in (-1)..(Len(c_classes) - 1) THEN "num"
    ELSE IF IsInt(label) /\ label[2] \in SeqToSet(c_classes) THEN "code"
    ELSE IF ld # None /\ ~IsInt(label) /\ label[2] \in {ld[1][k] : k \in DOMAIN ld[1]}
    THEN "value"
    ELSE ""

\* lines 614-620: the origin of a label when none is given
label_origin(c_classes, ld, label, origin) ==
    IF origin # None THEN origin[1]
    ELSE IF IsInt(label) /\ label[2] \in SeqToSet(c_classes) THEN "code"
    ELSE IF ld # None /\ ~IsInt(label) /\ label[2] \in {ld[1][k] : k \in DOMAIN ld[1]}
    THEN "value"
    ELSE IF IsInt(label) /\ label[2] \in (-1)..(Len(c_classes) - 1) THEN "num"
    ELSE ""

\* self.label_dict[label_code] if self.label_dict else label_code (None: KeyError)
label_value_of(ld, code) ==
    IF ld = None THEN Some(IntLabel(code))
    ELSE IF code \in DOMAIN ld[1] THEN Some(StrLabel(ld[1][code]))
    ELSE None

\* check_label_name(label, origin): lines 614-642.  The result is the tuple
\* (label_num, label_code, label_value), or None when the method raises.
check_label_name(c_classes, ld, inv, label, origin) ==
    LET o == label_origin(c_classes, ld, label, origin)
    IN  IF o = "num"
        THEN IF IsInt(label) /\ PyIndexable(c_classes, label[2])
                /\ label_value_of(ld, PyIndex(c_classes, label[2])) # None
             THEN Some(<<label[2], PyIndex(c_classes, label[2]),
                         label_value_of(ld, PyIndex(c_classes, label[2]))[1]>>)
             ELSE None
        ELSE IF o = "code"
        THEN IF IsInt(label) /\ label[2] \in SeqToSet(c_classes)
                /\ label_value_of(ld, label[2]) # None
             THEN Some(<<ListIndex(c_classes, label[2]), label[2],
                         label_value_of(ld, label[2])[1]>>)
             ELSE None
        ELSE IF o = "value"
        THEN IF inv # None /\ ~IsInt(label) /\ label[2] \in DOMAIN inv[1]
                /\ inv[1][label[2]] \in SeqToSet(c_classes)
             THEN Some(<<ListIndex(c_classes, inv[1][label[2]]), inv[1][label[2]], label>>)
             ELSE None
        ELSE None

\* the arguments of a check_label_name() call, as last records them
LabelArgs(label, origin) == [label |-> label, origin |-> origin]

\* a call of check_label_name; before compile self._classes does not exist
CheckLabelName(label, origin) ==
    /\ \E r \in {check_label_name(classes, label_dict, inv_label_dict, label, origin)} :
           last' = CallRet("check_label_name", LabelArgs(label, origin),
                           IF case = "" /\ origin = None THEN "AttributeError"
                           ELSE IF case = "" \/ r = None THEN "Exception" ELSE "",
                           IF case = "" THEN None ELSE r)
    /\ UNCHANGED <<sessionVars, dataVars, maskVars, diagVars>>

\* predict(): line 830, the output of the model on x_init
ModelOutput == [i \in Rows |-> 0]

\* run_app(): lines 1072-1095.  The result is the server thread, started.
RunApp ==
    IF y_pred = Absent
    THEN \* line 1074 reads an attribute that does not exist
         /\ last' = CallRet("run_app", <<>>, "AttributeError", None)
         /\ UNCHANGED <<sessionVars, dataVars, maskVars, diagVars>>
    ELSE /\ y_pred' = IF y_pred = None THEN Some(ModelOutput) ELSE y_pred
         /\ IF case # ""
            THEN /\ smartapp' = Some("SmartApp")
                 /\ last' = CallRet("run_app", <<>>, "", Some("CustomThread"))
            ELSE /\ UNCHANGED smartapp
                 /\ last' = CallRet("run_app", <<>>, "ValueError", None)
         /\ UNCHANGED <<state, case, classes, x_init, x_pred, contributions,
                        features_groups, features_dict, columns_dict,
                        contributions_groups, x_pred_groups, columns_dict_groups,
                        label_dict, inv_label_dict, passed_features_dict,
                        self_explainer, x_interaction, interaction_values,
                        features_imp, features_imp_groups, default_features_dict,
                        shares_default, groups_kind, dataVars, maskVars, diagVars>>

\* sessions of compile() and add() calls in any order, on
\* explainers built with and without dictionaries
LabelsYN == (0 :> "no") @@ (1 :> "yes")
PartialDict == ("f1" :> "F1")
OtherDict == ("f2" :> "F2")
SessionRow == <<1, -1, 0>>
InitSession == \E fd \in {<<>>, PartialDict} : InitWith(fd, None)
CompileCalls ==
    \E kind \in ModelKinds, explainer \in BOOLEAN, fg \in GroupChoices :
        Compile(kind, SessionRow, explainer, None, fg)
AddCalls ==
    \E a \in {AddArgs(Some(YPred), None, None), AddArgs(None, Some(LabelsYN), None),
              AddArgs(None, None, Some(OtherDict))} :
        Add(a.y_pred, a.label_dict, a.features_dict)
NextSession == CompileCalls \/ AddCalls
SpecSession == InitSession /\ [][NextSession]_vars

\* check_label_name() calls with every label and origin, and run_app()
\* calls, before and after one compile() of a classification model and
\* add(label_dict)
LabelKinds == {"binary", "multiclass", "coded"}
Labels == {IntLabel(n) : n \in (-2)..3} \cup {StrLabel("yes"), StrLabel("zz")}
Origins == {None, Some("num"), Some("code"), Some("value")}
InitLabels == \E ld \in {None, Some(LabelsYN)} : InitWith(<<>>, ld)
CompileForLabels ==
    /\ state = ""
    /\ \E kind \in LabelKinds : Compile(kind, SessionRow, FALSE, None, None)
AddLabelDict == Add(None, Some(LabelsYN), None)
CheckLabelNameCalls ==
    \E label \in Labels, origin \in Origins : CheckLabelName(label, origin)
RunAppCalls == RunApp
NextLabels == CompileForLabels \/ AddLabelDict \/ CheckLabelNameCalls \/ RunAppCalls
SpecLabels == InitLabels /\ [][NextLabels]_vars

(* --------------------------- to_smartpredictor ------------------------ *)
\* lines 1136-1142: the default mask_params of a session that has none
default_mask_params == MaskParams(None, None, None, None)

\* to_smartpredictor(): lines 1125-1145
ToSmartPredictor ==
    /\ mask_params' = IF self_explainer \notin {Absent, None} /\ mask_params = None
                      THEN Some(default_mask_params) ELSE mask_params
    /\ last' = Call("to_smartpredictor", <<>>,
                    IF self_explainer = Absent THEN "AttributeError"
                    ELSE IF self_explainer = None THEN "ValueError" ELSE "", FALSE)
    /\ UNCHANGED <<sessionVars, dataVars, diagVars, mask, mask_kind,
                   masked_contributions, pre_cutoff, mask_groups>>

\* sessions of compile(), filter(), to_pandas() and to_smartpredictor() calls
\* in any order; compile() is given contributions or computes other ones,
\* with no groups, an empty dictionary of groups or the group g
EmptyGroups == Some(<<>>)
AcceptedGroups == {None, EmptyGroups, Some(GroupsG)}
GivenRow == <<1, -1, 0>>
ComputedRow == <<-1, 1, 1>>
RecompileCalls ==
    \E given \in BOOLEAN, fg \in AcceptedGroups :
        CompileWith("regression", IF given THEN GivenRow ELSE ComputedRow,
                    FALSE, given, Some(YPred), fg)
RefilterCalls ==
    \E p \in SessionSigns, g \in GroupFlags : Filter(None, None, p, None, g)
SummaryCalls ==
    \E g \in GroupFlags : ToPandas(None, None, None, None, g)
ToSmartPredictorCalls == ToSmartPredictor
NextRecompile == RecompileCalls \/ RefilterCalls \/ SummaryCalls \/ ToSmartPredictorCalls
SpecRecompile == Init /\ [][NextRecompile]_vars

(* ------------------ importance and interaction values ----------------- *)
\* SmartState.compute_features_import: per feature, the sum over the rows of
\* the absolute values of its contributions
compute_features_import(c) ==
    [j \in DOMAIN c[1] |-> SumSeq([i \in DOMAIN c |-> Abs(c[i][j])])]
st_compute_features_import(st, contrib) ==
    IF IsMulti(st) THEN [k \in DOMAIN contrib |-> compute_features_import(contrib[k])]
    ELSE compute_features_import(contrib)

\* compute_features_import(force): lines 964-967.  An attribute that no
\* compile() has written raises AttributeError when it is read, and so does
\* the state given grouped contributions of the other type.
ComputeFeaturesImport(force) ==
    LET e_groups == /\ features_groups # None
                    /\ \/ features_imp_groups = Absent
                       \/ features_imp_groups = None /\ groups_kind # state
        e_imp == ~e_groups /\ features_imp = Absent
    IN  /\ features_imp_groups' =
               IF ~e_groups /\ features_groups # None /\ features_imp_groups = None
               THEN Some(st_compute_features_import(state, contributions_groups[1]))
               ELSE features_imp_groups
        /\ features_imp' =
               IF ~e_groups /\ ~e_imp /\ (features_imp = None \/ force)
               THEN Some(st_compute_features_import(state, contributions[1]))
               ELSE features_imp
        /\ last' = Call("compute_features_import", [force |-> force],
                        IF e_groups \/ e_imp THEN "AttributeError" ELSE "", FALSE)
        /\ UNCHANGED <<state, case, classes, x_init, x_pred, contributions, y_pred,
                       features_groups, features_dict, columns_dict,
                       contributions_groups, x_pred_groups, columns_dict_groups,
                       label_dict, inv_label_dict, smartapp, passed_features_dict,
                       self_explainer, x_interaction, interaction_values,
                       default_features_dict, shares_default, groups_kind,
                       dataVars, maskVars, diagVars>>

\* x.loc[selection] and x[:n_samples_max]: the rows, each with its index
RowsOf(x, selection) ==
    IF TruthySeq(selection)
    THEN [q \in DOMAIN selection[1] |-> <<selection[1][q], x[selection[1][q]]>>]
    ELSE [i \in DOMAIN x |-> <<i, x[i]>>]
Truncated(rows, n_samples_max) ==
    IF n_samples_max = None THEN rows
    ELSE SubSeq(rows, 1, Min(n_samples_max[1], Len(rows)))
\* get_shap_interaction_values(x, explainer): what an explainer computes for rows
InteractionsOf(e, rows) == [explainer |-> e, rows |-> rows]

\* the arguments of a get_interaction_values() call, as last records them
InteractionArgs(n_samples_max, selection) ==
    [n_samples_max |-> n_samples_max, selection |-> selection]

\* get_interaction_values(n_samples_max, selection): lines 405-416.  The
\* result is the value returned.  Without an explainer line 415 raises, after
\* line 414 has stored the rows.
GetInteractionValues(n_samples_max, selection) ==
    IF x_init = None
    THEN /\ last' = CallRet("get_interaction_values",
                            InteractionArgs(n_samples_max, selection),
                            "AttributeError", None)
         /\ UNCHANGED <<sessionVars, dataVars, maskVars, diagVars>>
    ELSE LET x == Truncated(RowsOf(x_init[1], selection), n_samples_max)
             cached == x_interaction # None /\ x_interaction[1] = x
             e_explainer == self_explainer \in {Absent, None}
         IN  /\ x_interaction' = IF cached THEN x_interaction ELSE Some(x)
             /\ interaction_values' =
                    IF cached \/ e_explainer THEN interaction_values
                    ELSE Some(InteractionsOf(self_explainer[1], x))
             /\ last' = CallRet("get_interaction_values",
                                InteractionArgs(n_samples_max, selection),
                                IF cached /\ interaction_values = None THEN "AttributeError"
                                ELSE IF ~cached /\ e_explainer THEN "Exception"
                                ELSE "",
                                IF cached THEN interaction_values
                                ELSE IF e_explainer THEN None
                                ELSE Some(InteractionsOf(self_explainer[1], x)))
             /\ UNCHANGED <<state, case, classes, x_init, x_pred, contributions, y_pred,
                            features_groups, features_dict, columns_dict,
                            contributions_groups, x_pred_groups, columns_dict_groups,
                            label_dict, inv_label_dict, smartapp, passed_features_dict,
                            self_explainer, features_imp, features_imp_groups,
                            default_features_dict, shares_default, groups_kind,
                            dataVars, maskVars, diagVars>>

\* sessions of compile() and get_interaction_values() calls in any order;
\* compile() is given contributions or computes them with the explainer of
\* the model
CacheKinds == {"regression", "binary"}
SampleLimits == {None, Some(1)}
RowSelections == {None, Some(<<2, 1>>)}
CacheCompileCalls ==
    \E kind \in CacheKinds, given \in BOOLEAN :
        CompileWith(kind, SessionRow, FALSE, given, None, None)
InteractionCalls ==
    \E n \in SampleLimits, sel \in RowSelections : GetInteractionValues(n, sel)
NextCache == CacheCompileCalls \/ InteractionCalls
SpecCache == Init /\ [][NextCache]_vars

\* sessions of compile(), compute_features_import() and
\* compute_features_stability() calls in any order
ImportCompileCalls ==
    \E kind \in CacheKinds, b \in SessionRows, fg \in AcceptedGroups :
        Compile(kind, b, FALSE, None, fg)
ImportCalls == \E force \in BOOLEAN : ComputeFeaturesImport(force)
ImportStabilityCalls == state # "" /\ ComputeFeaturesStability(<<1, 2>>)
NextImport == ImportCompileCalls \/ ImportCalls \/ ImportStabilityCalls
SpecImport == Init /\ [][NextImport]_vars

(* ------------------------- properties of filter ----------------------- *)
\* the ranked data the last filter() execution read, and its mask attributes,
\* as lists of per-class tables
FilteredData == FilterData(mask_groups)[1]
ContribTables == Tables(state, FilteredData.contrib_sorted)
VarTables == Tables(state, FilteredData.var_dict)
PreCutoffTables == Tables(state, pre_cutoff[1])
MaskTables == Tables(state, mask[1])
RowCount(row) == Cardinality({j \in DOMAIN row : row[j]})

\* position j of row i of table k passes every criterion p supplies
CriteriaHold(p, k, i, j) ==
    LET c == ContribTables[k][i][j]
        name == FilterColumns(mask_groups)[VarTables[k][i][j] + 1]
    IN  /\ p.features_to_hide = None \/ name \notin SeqToSet(p.features_to_hide[1])
        /\ p.threshold = None \/ Abs(c) >= p.threshold[1]
        /\ p.positive = None \/ (IF p.positive[1] THEN c > 0 ELSE c < 0)

\* C1: the mask filter() stores at line 756 has the shape of contrib_sorted
\* and is true exactly at the positions that pass every supplied criterion
\* (hidden feature, threshold, sign); with no criterion it is all true.
C1_CombinedMaskIsConjunction ==
    (last.op = "filter" /\ pre_cutoff # None) =>
        /\ DOMAIN PreCutoffTables = DOMAIN ContribTables
        /\ \A k \in DOMAIN ContribTables :
            /\ DOMAIN PreCutoffTables[k] = DOMAIN ContribTables[k]
            /\ \A i \in DOMAIN ContribTables[k] :
                /\ DOMAIN PreCutoffTables[k][i] = DOMAIN ContribTables[k][i]
                /\ \A j \in DOMAIN ContribTables[k][i] :
                       PreCutoffTables[k][i][j] <=> CriteriaHold(last.args, k, i, j)

\* a filter() call with the three criteria (negative sign) whose combined mask
\* shows some positions and hides others
C1_Witness ==
    /\ last.op = "filter" /\ pre_cutoff # None
    /\ TruthySeq(last.args.features_to_hide) /\ TruthyNum(last.args.threshold)
    /\ last.args.positive = Some(FALSE)
    /\ \E k \in DOMAIN PreCutoffTables : \E i \in DOMAIN PreCutoffTables[k] :
           \E j1, j2 \in DOMAIN PreCutoffTables[k][i] :
               PreCutoffTables[k][i][j1] /\ ~PreCutoffTables[k][i][j2]

\* C2: after a filter() call with max_contrib = N >= 1, a position is shown
\* exactly when the combined mask shows it and it is among the first N
\* positions, in rank order, that the combined mask shows.
C2_CutoffKeepsFirstSurvivors ==
    (/\ last.op = "filter" /\ last.err = ""
     /\ last.args.max_contrib # None /\ last.args.max_contrib[1] >= 1) =>
        \A k \in DOMAIN PreCutoffTables : \A i \in DOMAIN PreCutoffTables[k] :
            \A j \in DOMAIN PreCutoffTables[k][i] :
                MaskTables[k][i][j] <=>
                    /\ PreCutoffTables[k][i][j]
                    /\ Cardinality({q \in 1..j : PreCutoffTables[k][i][q]})
                           <= last.args.max_contrib[1]

\* a cutoff of 1 on a row whose first ranked position is hidden by another
\* criterion, and on a row with more than one survivor
C2_Witness ==
    /\ last.op = "filter" /\ last.err = "" /\ last.args.max_contrib = Some(1)
    /\ \E k \in DOMAIN PreCutoffTables : \E i \in DOMAIN PreCutoffTables[k] :
           /\ ~PreCutoffTables[k][i][1]
           /\ \E j \in DOMAIN MaskTables[k][i] : j > 1 /\ MaskTables[k][i][j]
    /\ \E k \in DOMAIN PreCutoffTables : \E i \in DOMAIN PreCutoffTables[k] :
           RowCount(PreCutoffTables[k][i]) > 1 /\ RowCount(MaskTables[k][i]) = 1

\* C3: a filter() call with threshold < 0 or max_contrib <= 0 raises a
\* configuration error.
C3_InvalidParametersRejected ==
    (/\ last.op = "filter"
     /\ \/ (last.args.threshold # None /\ last.args.threshold[1] < 0)
        \/ (last.args.max_contrib # None /\ last.args.max_contrib[1] <= 0)) =>
        last.err = "ValueError"

\* the stored mask shows, in every row, at most as many positions as mask m
FewerShownThan(m) ==
    \A k \in DOMAIN MaskTables : \A i \in DOMAIN MaskTables[k] :
        RowCount(MaskTables[k][i]) <= RowCount(Tables(state, m)[k][i])

\* C4: the mask of a successful filter() call shows, in every row, at most as
\* many positions as the same call without features_to_hide, without
\* threshold, or without positive, whatever max_contrib is.
C4_AddingCriterionNeverShowsMore ==
    (last.op = "filter" /\ last.err = "") =>
        LET a == last.args
            Without(r) == r.err = "" /\ FewerShownThan(r.mask[1])
        IN  /\ a.features_to_hide # None =>
                Without(filter(None, a.threshold, a.positive, a.max_contrib, a.groups))
            /\ a.threshold # None =>
                Without(filter(a.features_to_hide, None, a.positive, a.max_contrib, a.groups))
            /\ a.positive # None =>
                Without(filter(a.features_to_hide, a.threshold, None, a.max_contrib, a.groups))

\* a call with a hidden feature, a threshold and a cutoff, where the threshold
\* strictly lowers the number of positions a row shows
C4_Witness ==
    /\ last.op = "filter" /\ last.err = ""
    /\ TruthySeq(last.args.features_to_hide) /\ TruthyNum(last.args.threshold)
    /\ TruthyNum(last.args.max_contrib)
    /\ \E k \in DOMAIN MaskTables : \E i \in DOMAIN MaskTables[k] :
           RowCount(MaskTables[k][i]) <
               RowCount(Tables(state,
                   filter(last.args.features_to_hide, None, last.args.positive,
                          last.args.max_contrib, last.args.groups).mask[1])[k][i])

(* ------------------- properties of filter and to_pandas --------------- *)
ParamsOf(a) == MaskParams(a.features_to_hide, a.threshold, a.positive, a.max_contrib)
NoParams(a) == ParamsOf(a) = MaskParams(None, None, None, None)

\* C5: cutting off with N > 0 a row already cut off with N changes nothing,
\* and a successful filter() call that directly follows a successful one with
\* the same arguments stores the same mask.
C5_SameParametersSameMask ==
    [][/\ \A m \in [1..NFeat -> BOOLEAN], n \in 1..MaxCutoff :
              cutoff_contributions(cutoff_contributions(<<m>>, n), n)
                  = cutoff_contributions(<<m>>, n)
       /\ (/\ last'.op = "filter" /\ last'.err = ""
           /\ TruthyNum(last'.args.max_contrib) /\ last'.args.max_contrib[1] > 0) =>
              st_cutoff_contributions(state', mask'[1], last'.args.max_contrib[1]) = mask'[1]
       /\ (/\ last.op = "filter" /\ last.err = ""
           /\ last'.op = "filter" /\ last'.args = last.args) =>
              (last'.err = "" /\ mask' = mask)]_vars

\* a successful filter() call whose cutoff hid a position the combined mask shows
C5_Witness ==
    /\ last.op = "filter" /\ last.err = ""
    /\ TruthyNum(last.args.max_contrib) /\ last.args.max_contrib[1] > 0
    /\ mask # pre_cutoff

\* number of columns of the ranked data a to_pandas() call reads, and of the
\* stored mask
DataCols(ug) == NCols(Tables(state, FilterData(ug)[1].contrib_sorted)[1])
MaskCols == NCols(Tables(state, mask[1])[1])

\* to_pandas() kept the stored mask and parameters
Reused == ~last'.filtered /\ mask' = mask /\ mask_params' = mask_params
\* to_pandas() recomputed the mask from parameters a for the variant ug
Recomputed(a, ug) ==
    /\ last'.filtered
    /\ mask_params' = Some(ParamsOf(a))
    /\ mask' = filter(a.features_to_hide, a.threshold, a.positive, a.max_contrib,
                      Some(ug)).mask

\* C6 as stated: a to_pandas() call that returns normally after a filter()
\* keeps the stored mask and parameters when it is given none of the four
\* parameters, and recomputes from the given ones otherwise.
C6_ToPandasAlwaysReuses ==
    [][(last'.op = "to_pandas" /\ last'.err = "" /\ mask_params # None) =>
          IF NoParams(last'.args) THEN Reused
          ELSE Recomputed(last'.args, DisplayGroups(last'.args.groups))]_vars

\* C6, what lines 900-931 do: a to_pandas() call that returns normally after
\* a filter() and is given none of the four parameters keeps the stored mask
\* and parameters when the stored mask has as many columns as the ranked data
\* the call reads, and otherwise recomputes the mask with no criterion, which
\* erases the stored parameters; given a parameter it recomputes from the
\* given ones.  The summary is built with the mask the call leaves.
C6_ToPandasReusesMatchingMask ==
    [][(last'.op = "to_pandas" /\ last'.err = "" /\ mask_params # None) =>
          LET a == last'.args
              ug == DisplayGroups(a.groups)
          IN  /\ IF NoParams(a) /\ DataCols(ug) = MaskCols THEN Reused
                 ELSE Recomputed(a, ug)
              /\ (IF ug THEN data_groups' ELSE data')[1].summary
                     = Some(to_pandas_summary(FilterData(ug)[1], ug, mask'[1]))]_vars

\* a to_pandas() call without parameters that kept a mask filtered by sign
C6_Witness ==
    /\ last.op = "to_pandas" /\ last.err = "" /\ ~last.filtered
    /\ NoParams(last.args)
    /\ mask_params # None /\ mask_params[1].positive = Some(TRUE)
    /\ mask # pre_cutoff
    /\ FilterData(DisplayGroups(last.args.groups))[1].summary # None

\* C7: a to_pandas() call on a session whose y_pred is None raises the error
\* asking for y_pred without executing filter(), and leaves mask,
\* masked_contributions, mask_params and both summaries as they were.
C7_ToPandasNeedsYPred ==
    [][(last'.op = "to_pandas" /\ y_pred = None) =>
          /\ last'.err = "ValueError" /\ ~last'.filtered
          /\ UNCHANGED <<mask, masked_contributions, mask_params, data, data_groups>>]_vars

\* a failed to_pandas() call on a session that holds a mask and no y_pred
C7_Witness ==
    /\ last.op = "to_pandas" /\ last.err = "ValueError" /\ y_pred = None
    /\ mask # None /\ mask_params # None

(* --------------------- properties of the diagnostics ------------------ *)
DiagOps == {"compute_features_stability", "compute_features_compacity"}

\* C8: on a classification with more than 2 classes both diagnostics raise
\* and leave local_neighbors, features_stability and features_compacity as
\* they were; on a regression or a binary classification they do not raise.
C8_MultiClassRejectedFirst ==
    [][last'.op \in DiagOps =>
          IF case = "classification" /\ Len(classes) > 2
          THEN last'.err = "AssertionError" /\ UNCHANGED diagVars
          ELSE last'.err = ""]_vars

\* both outcomes need a call; the state shows the rejected one
C8_Witness ==
    /\ last.op \in DiagOps /\ last.err = "AssertionError"
    /\ case = "classification" /\ Len(classes) = 3
    /\ local_neighbors = None /\ features_stability = None /\ features_compacity = None

\* C9: every distance_reached of features_compacity lies in [0, 1] and
\* every features_needed in [0, number of features].
C9_CompacityRanges ==
    features_compacity # None =>
        /\ \A s \in DOMAIN features_compacity[1].distance_reached :
               features_compacity[1].distance_reached[s] \in 0..1
        /\ \A s \in DOMAIN features_compacity[1].features_needed :
               features_compacity[1].features_needed[s] \in 0..NFeat

\* a compacity call where the distance reached by an instance exceeds 1
\* before it is clipped
C9_Witness ==
    /\ last.op = "compute_features_compacity" /\ last.err = ""
    /\ \E s \in DOMAIN last.args[1] :
           /\ get_distance(last.args[1], DiagContributions(contributions[1]),
                           last.args[3])[s] > 1
           /\ features_compacity[1].distance_reached[s] = 1

\* a table of nrows rows and NFeat columns of non-negative values
NonNegTable(t, nrows) ==
    /\ DOMAIN t = 1..nrows
    /\ \A i \in DOMAIN t :
           DOMAIN t[i] = 1..NFeat /\ \A j \in DOMAIN t[i] : t[i][j] >= 0

\* C10: a successful compute_features_stability call on one instance stores
\* local_neighbors (one normalised vector for the instance and each of its
\* neighbours) and leaves features_stability as it was; on several instances
\* it stores amplitude and variability of shape (instances x features) with
\* non-negative values and leaves local_neighbors as it was.
C10_StabilityByCardinality ==
    [][(last'.op = "compute_features_stability" /\ last'.err = "") =>
          LET sel == last'.args[1]
          IN  IF Len(sel) = 1
              THEN /\ features_stability' = features_stability
                   /\ features_compacity' = features_compacity
                   /\ local_neighbors' # None
                   /\ LET norm == local_neighbors'[1].norm_shap
                      IN  /\ DOMAIN norm = 1..(1 + NeighborsK)
                          /\ \A n \in DOMAIN norm :
                                 /\ DOMAIN norm[n] = 1..NFeat
                                 /\ \A j \in DOMAIN norm[n] :
                                        norm[n][j] \in (-NormScale)..NormScale
              ELSE /\ local_neighbors' = local_neighbors
                   /\ features_compacity' = features_compacity
                   /\ features_stability' # None
                   /\ NonNegTable(features_stability'[1].amplitude, Len(sel))
                   /\ NonNegTable(features_stability'[1].variability, Len(sel))]_vars

\* a call on several instances after a call on one: both results are held,
\* and the amplitude and the variability are not all zero
C10_Witness ==
    /\ last.op = "compute_features_stability" /\ last.err = ""
    /\ Len(last.args[1]) > 1
    /\ local_neighbors # None /\ features_stability # None
    /\ \E i \in DOMAIN features_stability[1].amplitude : \E j \in 1..NFeat :
           /\ features_stability[1].amplitude[i][j] > 0
           /\ features_stability[1].variability[i][j] > 0

(* -------------------- properties of the two variants ------------------ *)
IsTable(t) == DOMAIN t = Rows /\ \A i \in DOMAIN t : DOMAIN t[i] = 1..NFeat

\* the list of masks the single-table operations build for one table
SingleMasks(cs, vd, p, cols) ==
    <<init_mask(cs, TRUE)>>
    \o (IF TruthySeq(p.features_to_hide)
        THEN <<hide_contributions(vd,
                 check_features_name(cols, features_dict, p.features_to_hide[1])[1])>>
        ELSE <<>>)
    \o (IF TruthyNum(p.threshold) THEN <<cap_contributions(cs, p.threshold[1])>> ELSE <<>>)
    \o (IF p.positive # None THEN <<sign_contributions(cs, p.positive[1])>> ELSE <<>>)
SingleMask(cs, vd, p, cols) ==
    IF TruthyNum(p.max_contrib)
    THEN cutoff_contributions(combine_masks(SingleMasks(cs, vd, p, cols)), p.max_contrib[1])
    ELSE combine_masks(SingleMasks(cs, vd, p, cols))

\* the ranked data d is, class by class, the single-table ranking of contrib
RankedElementWise(d, contrib, xp) ==
    /\ DOMAIN d.contrib_sorted = DOMAIN contrib
    /\ DOMAIN d.var_dict = DOMAIN contrib /\ DOMAIN d.x_sorted = DOMAIN contrib
    /\ \A k \in DOMAIN contrib :
           <<d.contrib_sorted[k], d.var_dict[k], d.x_sorted[k]>>
               = rank_contributions(contrib[k], xp)

RankedRow(cs, vd, xs, c, x) ==
    /\ DOMAIN cs = DOMAIN c /\ DOMAIN vd = DOMAIN c /\ DOMAIN xs = DOMAIN c
    /\ {vd[q] + 1 : q \in DOMAIN vd} = DOMAIN c
    /\ \A q \in DOMAIN c : cs[q] = c[vd[q] + 1] /\ xs[q] = x[vd[q] + 1]
    /\ \A q1, q2 \in DOMAIN c :
           q1 < q2 =>
               /\ cs[q1] = NaN => cs[q2] = NaN
               /\ (cs[q1] # NaN /\ cs[q2] # NaN) =>
                      /\ Abs(cs[q1]) >= Abs(cs[q2])
                      /\ Abs(cs[q1]) = Abs(cs[q2]) => vd[q1] < vd[q2]
RankedTables(d, contrib, xp) ==
    LET cs == Tables(state, d.contrib_sorted)
        vd == Tables(state, d.var_dict)
        xs == Tables(state, d.x_sorted)
        c == Tables(state, contrib)
    IN  /\ DOMAIN cs = DOMAIN c /\ DOMAIN vd = DOMAIN c /\ DOMAIN xs = DOMAIN c
        /\ \A k \in DOMAIN c :
            /\ DOMAIN cs[k] = DOMAIN c[k] /\ DOMAIN vd[k] = DOMAIN c[k]
            /\ DOMAIN xs[k] = DOMAIN c[k]
            /\ \A i \in DOMAIN c[k] :
                   RankedRow(cs[k][i], vd[k][i], xs[k][i], c[k][i], xp[i])

\* C12: in data and in data_groups every row of contrib_sorted is in
\* non-increasing order of absolute value, equal magnitudes keep the column
\* order, NaN comes last, var_dict is the permutation that maps the original
\* contribution row and value row to contrib_sorted and x_sorted, and the
\* three tables have the shape of the contributions.
C12_RankInvariant ==
    /\ data # None => RankedTables(data[1], contributions[1], x_pred[1])
    /\ data_groups # None =>
           RankedTables(data_groups[1], contributions_groups[1], x_pred_groups[1])

\* a compiled session with a row whose first contribution is NaN and whose
\* other contributions are numbers of equal magnitude: the numbers come
\* first, in column order, and the NaN last
C12_Witness ==
    /\ data # None
    /\ LET c == Tables(state, contributions[1])[1]
           vd == Tables(state, data[1].var_dict)[1]
       IN  \E i \in Rows :
               /\ c[i][1] = NaN
               /\ \A j \in 2..NFeat : c[i][j] # NaN /\ Abs(c[i][j]) = Abs(c[i][2])
               /\ vd[i][1] = 1 /\ vd[i][NFeat] = 0

\* the contributions a compile() call of this kind without groups stores
UngroupedContributions(kind) ==
    {adapt_contributions(check_model(kind)[1], kind, ContribInput(kind, b)) : b \in BaseRows}

\* C13: after a compile with groups, in every row the column of a group in
\* contributions_groups is the sum of the contributions of its members, the
\* column of an ungrouped feature is that feature's column, and
\* contributions and data are those of the same compile without groups.
C13_GroupConservation ==
    (last.op = "compile" /\ last.err = "" /\ TruthySeq(features_groups)) =>
        LET groups == features_groups[1]
            c == Tables(state, contributions[1])
            cg == Tables(state, contributions_groups[1])
        IN  /\ DOMAIN cg = DOMAIN c
            /\ \A k \in DOMAIN c :
                /\ DOMAIN cg[k] = DOMAIN c[k]
                /\ \A i \in DOMAIN c[k] :
                    /\ DOMAIN cg[k][i] = DOMAIN columns_dict_groups
                    /\ \A q \in DOMAIN columns_dict_groups :
                        IF q <= Len(groups)
                        THEN /\ columns_dict_groups[q] = groups[q].name
                             /\ cg[k][i][q] =
                                    SumSeq([n \in DOMAIN groups[q].members |->
                                        c[k][i][ColIndex(columns_dict,
                                                         groups[q].members[n])]])
                        ELSE /\ columns_dict_groups[q] \notin GroupedFeatures(groups)
                             /\ cg[k][i][q] =
                                    c[k][i][ColIndex(columns_dict, columns_dict_groups[q])]
            /\ contributions[1] \in UngroupedContributions(last.args.kind)
            /\ data[1] = compile_data(state, contributions[1], x_pred[1])

\* a compile with the group g = (f1, f2) on a row where the contributions of
\* the members cancel out, so that the group is ranked after f3
C13_Witness ==
    /\ last.op = "compile" /\ last.err = "" /\ features_groups = Some(GroupsG)
    /\ \E i \in Rows :
        LET c == Tables(state, contributions[1])[1][i]
            cg == Tables(state, contributions_groups[1])[1][i]
        IN  /\ c[1] # 0 /\ c[2] = -c[1] /\ c[3] # 0
            /\ cg = <<0, c[3]>>
            /\ Tables(state, data_groups[1].var_dict)[1][i] = <<1, 0>>

\* the declarations of groups the claim is about
InTwoGroups(groups) ==
    \E n \in UNION {SeqToSet(groups[k].members) : k \in DOMAIN groups} :
        Cardinality({k \in DOMAIN groups : n \in SeqToSet(groups[k].members)}) > 1
NamesUnknownFeature(groups) ==
    \E k \in DOMAIN groups :
        ~(SeqToSet(groups[k].members) \subseteq SeqToSet(FeatNames))

\* C14: a compile() call whose features_groups puts a feature in two groups,
\* or names a feature that is no column of the prediction set, raises, and
\* the call writes none of the grouped artifacts.
C14_InvalidGroupsRejected ==
    [][(/\ last'.op = "compile"
        /\ last'.args.groups # None
        /\ ~last'.args.explainer
        /\ \/ InTwoGroups(last'.args.groups[1])
           \/ NamesUnknownFeature(last'.args.groups[1]))
       => /\ last'.err = "ValueError"
          /\ UNCHANGED <<contributions_groups, x_pred_groups, data_groups,
                         columns_dict_groups>>]_vars
\* a rejected declaration of overlapping groups: the ungrouped artifacts of
\* the call are there, the grouped ones are not
C14_Witness ==
    /\ last.op = "compile" /\ last.err = "ValueError"
    /\ last.args.groups = Some(GroupsOverlap)
    /\ features_groups = Some(GroupsOverlap)
    /\ data # None /\ data_groups = None /\ contributions_groups = None

(* ---------------------- properties of the session ---------------------- *)
\* C15: the features_dict object the caller passed to __init__ or add() has
\* the content it had when it was passed (self.features_dict is that object).
C15_DictsReadOnly ==
    DOMAIN passed_features_dict # {} => features_dict = passed_features_dict
\* what does hold: the entries the caller supplied are never changed
C15_SuppliedEntriesKept ==
    \A n \in DOMAIN passed_features_dict :
        n \in DOMAIN features_dict /\ features_dict[n] = passed_features_dict[n]

\* C16: after a successful compile(), and after a successful
\* add(features_dict=...), every name in columns_dict has a display name in
\* features_dict, and a name the supplied dictionary did not hold is displayed
\* as itself.
C16_MissingNamesFallBack ==
    (/\ last.op \in {"compile", "add"} /\ last.err = ""
     /\ last.op = "add" => last.args.features_dict # None)
    => \A p \in DOMAIN columns_dict :
           LET n == columns_dict[p]
           IN  /\ n \in DOMAIN features_dict
               /\ n \notin DOMAIN passed_features_dict => features_dict[n] = n
               /\ n \in DOMAIN passed_features_dict =>
                      features_dict[n] = passed_features_dict[n]
\* add(features_dict={'f2': 'F2'}) on a compiled session: f1 and f3 fall back
C16_Witness ==
    /\ last.op = "add" /\ last.err = "" /\ last.args.features_dict = Some(OtherDict)
    /\ state # "" /\ columns_dict = FeatNames
    /\ features_dict["f1"] = "f1" /\ features_dict["f2"] = "F2"
    /\ features_dict["f3"] = "f3"

\* C17: once a compile() has fixed the number of per-class tables of a
\* classification session, no later compile() changes it.
C17_LengthConstant ==
    [][(state = "MultiDecorator" /\ state' = "MultiDecorator")
       => /\ Len(contributions'[1]) = Len(contributions[1])
          /\ Len(data'[1].contrib_sorted) = Len(data[1].contrib_sorted)
          /\ Len(data'[1].var_dict) = Len(data[1].var_dict)
          /\ Len(data'[1].x_sorted) = Len(data[1].x_sorted)]_vars
\* what does hold: a successful compile() of a classification model leaves
\* one table per class of that model in every per-class artifact
C17_LengthIsClassCount ==
    (last.op = "compile" /\ last.err = "" /\ state = "MultiDecorator")
    => /\ Len(contributions[1]) = Len(classes)
       /\ Len(data[1].contrib_sorted) = Len(classes)
       /\ Len(data[1].var_dict) = Len(classes)
       /\ Len(data[1].x_sorted) = Len(classes)

LabelCall == last.op = "check_label_name" /\ last.args.origin = None /\ case # ""
LabelDictValues == IF label_dict = None THEN {}
                   ELSE {label_dict[1][k] : k \in DOMAIN label_dict[1]}
IsClassCode(label) == IsInt(label) /\ label[2] \in SeqToSet(classes)
IsLabelValue(label) == ~IsInt(label) /\ label[2] \in LabelDictValues

RunAppNotCompiled == last.op = "run_app" /\ x_init = None

\* C20: run_app() on an explainer that was never compiled raises the
\* ValueError of line 1095, computes no predictions, creates no web
\* application and starts no server thread.
C20_NotCompiledValueError ==
    RunAppNotCompiled =>
        /\ last.err = "ValueError"
        /\ y_pred = Absent /\ smartapp = None /\ last.ret = None
\* what does hold: the call raises AttributeError at line 1074 and does nothing
C20_NotCompiledAttributeError ==
    RunAppNotCompiled =>
        /\ last.err = "AttributeError"
        /\ y_pred = Absent /\ smartapp = None /\ last.ret = None

(* ------------------ properties of sessions that recompile -------------- *)
\* C21: a session that has mask_params has a mask.
C21_MaskParamsHaveMask ==
    mask_params # None => mask # None
\* the failure C21 excludes: to_pandas() without filter parameter raises
\* AttributeError at lines 906-910, reading the mask that does not exist
C21_ToPandasWithoutMask ==
    /\ last.op = "to_pandas" /\ last.err = "AttributeError"
    /\ mask_params = Some(default_mask_params) /\ mask = None
    /\ features_groups = None /\ data # None /\ y_pred # None

\* the grouped artifacts exist and are those of the contributions and the
\* groups of the current compile()
GroupedArtifactsCurrent ==
    /\ contributions_groups # None /\ x_pred_groups # None /\ data_groups # None
    /\ contributions_groups[1] =
           grouped_contributions(state, contributions[1], features_groups[1])
    /\ data_groups[1].contrib_sorted =
           compile_data(state, contributions_groups[1], x_pred_groups[1]).contrib_sorted

\* C22: whenever filter() or to_pandas() selects the grouped artifacts
\* (features_groups is not None, grouping not disabled by the caller), they
\* exist and are those of the current compile(), for every features_groups
\* compile() accepts.
C22_GroupedArtifactsCurrent ==
    (last.op \in {"filter", "to_pandas"} /\ DisplayGroups(last.args.groups))
    => GroupedArtifactsCurrent
\* what does hold: the same for a features_groups that is not empty
C22_DeclaredGroupsCurrent ==
    (/\ last.op \in {"filter", "to_pandas"} /\ DisplayGroups(last.args.groups)
     /\ TruthySeq(features_groups))
    => GroupedArtifactsCurrent
\* the two failures: no grouped artifact at all, and those of an earlier compile()
C22_NoGroupedArtifact ==
    /\ last.op = "filter" /\ last.err = "AttributeError"
    /\ features_groups = EmptyGroups /\ data_groups = None
C22_StaleGroupedArtifact ==
    /\ last.op = "filter" /\ last.err = "" /\ mask_groups
    /\ features_groups = EmptyGroups /\ data_groups # None
    /\ contributions_groups[1] #
           grouped_contributions(state, contributions[1], GroupsG)

\* C23: the mask a to_pandas() call that returns normally leaves, and gives
\* to the summary, is the mask filter() computes with the stored parameters
\* on the ranked data the call summarises (the current data, of the variant
\* the call uses).
C23_MaskFromSummarisedData ==
    (last.op = "to_pandas" /\ last.err = "") =>
        LET mp == mask_params[1]
        IN  mask = filter(mp.features_to_hide, mp.threshold, mp.positive, mp.max_contrib,
                          Some(DisplayGroups(last.args.groups))).mask
\* the failure: a mask kept by to_pandas() that differs from it
C23_StaleMaskSummarised ==
    /\ last.op = "to_pandas" /\ last.err = "" /\ ~last.filtered
    /\ features_groups = None /\ ~mask_groups
    /\ mask_params[1].positive = Some(TRUE)
    /\ mask[1] # st_sign_contributions(state, data[1].contrib_sorted, TRUE)

(* ----------------------- properties of two sessions -------------------- *)
\* the features_dict of another session, created by SmartExplainer() and not
\* used since: the default object of line 117
other_features_dict == default_features_dict

\* C24: no call on this session changes the features_dict of another session
\* created without features_dict.
C24_OtherSessionUnchanged ==
    [][other_features_dict' = other_features_dict]_vars
\* what does hold: a session that was given its own dictionary changes no other
C24_OwnDictIsolated ==
    [][~shares_default => other_features_dict' = other_features_dict]_vars
\* the failure: the names of this session in the other session
C24_OtherSessionNamed ==
    /\ last.op = "compile" /\ last.err = "" /\ shares_default
    /\ DOMAIN other_features_dict = SeqToSet(FeatNames) \cup {"g"}

(* --------------------------- properties of add ------------------------ *)
\* C25: an add() call that raises for its label_dict leaves y_pred,
\* label_dict, inv_label_dict and features_dict as they were, and every add()
\* call leaves the contributions, the ranked data and the mask as they were.
C25_FailedAddChangesNothing ==
    [][/\ (last'.op = "add" /\ last'.err = "ValueError") =>
              UNCHANGED <<y_pred, label_dict, inv_label_dict, features_dict>>
       /\ last'.op = "add" =>
              UNCHANGED <<contributions, contributions_groups, dataVars, maskVars>>]_vars
\* what does hold: the second half
C25_AddKeepsArtifacts ==
    [][last'.op = "add" =>
           UNCHANGED <<contributions, contributions_groups, dataVars, maskVars>>]_vars
\* the failure: a rejected label_dict is the label_dict of the session
C25_RejectedLabelDictStored ==
    /\ last.op = "add" /\ last.err = "ValueError"
    /\ Len(classes) = 3 /\ label_dict = Some(LabelsYN) /\ inv_label_dict = None

\* the names of the declared groups
GroupNames == {features_groups[1][k].name : k \in DOMAIN features_groups[1]}

\* C26: on a session compiled with features_groups every declared group name
\* has an entry in features_dict, whatever add() calls followed.
C26_GroupNamesKept ==
    (TruthySeq(features_groups) /\ data_groups # None)
    => GroupNames \subseteq DOMAIN features_dict
\* what does hold: they have one right after the compile()
C26_GroupNamesAfterCompile ==
    (last.op = "compile" /\ last.err = "" /\ TruthySeq(features_groups))
    => GroupNames \subseteq DOMAIN features_dict
\* the failure: add(features_dict=...) on a session compiled with groups
C26_GroupNameLost ==
    /\ last.op = "add" /\ last.err = "" /\ last.args.features_dict = Some(OtherDict)
    /\ features_groups = Some(GroupsG) /\ data_groups # None
    /\ DOMAIN features_dict = SeqToSet(FeatNames)

(* ---------------- properties of get_interaction_values ---------------- *)
\* the rows a get_interaction_values() call with arguments a asks for
RequestedRows(a) == Truncated(RowsOf(x_init[1], a.selection), a.n_samples_max)

\* C27: the value a get_interaction_values() call returns is what the
\* explainer of the current compile() computes for the requested rows.
C27_ReturnsCurrentExplainerValues ==
    (last.op = "get_interaction_values" /\ last.err = "") =>
        /\ self_explainer \notin {Absent, None}
        /\ last.ret = Some(InteractionsOf(self_explainer[1], RequestedRows(last.args)))
\* what does hold: a call for other rows than the cached ones that returns
\* normally recomputes with the current explainer and replaces the cache
C27_OtherRowsRecompute ==
    [][(/\ last'.op = "get_interaction_values" /\ last'.err = ""
        /\ x_interaction # None /\ x_interaction[1] # RequestedRows(last'.args))
       => /\ x_interaction' = Some(RequestedRows(last'.args))
          /\ interaction_values' =
                 Some(InteractionsOf(self_explainer[1], RequestedRows(last'.args)))
          /\ last'.ret = interaction_values']_vars
\* the failure: the values of the explainer of an earlier compile() returned
C27_StaleInteractions ==
    /\ last.op = "get_interaction_values" /\ last.err = ""
    /\ self_explainer = Some("binary")
    /\ last.ret[1].explainer = "regression"
    /\ last.ret[1].rows = RequestedRows(last.args)

(* ---------------- properties of compute_features_import --------------- *)
\* C28: right after a successful compile() features_imp, local_neighbors,
\* features_stability and features_compacity are None; the
\* compute_features_import() without force that follows it stores the
\* importance of the new contributions; and one that finds an importance
\* leaves it as it is.
C28_CompileInvalidates ==
    [][/\ (last'.op = "compile" /\ last'.err = "") =>
              /\ features_imp' = None /\ local_neighbors' = None
              /\ features_stability' = None /\ features_compacity' = None
       /\ (/\ last.op = "compile" /\ last.err = ""
           /\ last'.op = "compute_features_import" /\ ~last'.args.force) =>
              features_imp' = Some(st_compute_features_import(state, contributions[1]))
       /\ (/\ last'.op = "compute_features_import" /\ ~last'.args.force
           /\ features_imp \notin {Absent, None}) =>
              features_imp' = features_imp]_vars
\* what does hold: the same, for the calls that return normally
C28_InvalidatesWhenComputed ==
    [][/\ (last'.op = "compile" /\ last'.err = "") =>
              /\ features_imp' = None /\ local_neighbors' = None
              /\ features_stability' = None /\ features_compacity' = None
       /\ (/\ last.op = "compile" /\ last.err = ""
           /\ last'.op = "compute_features_import" /\ last'.err = ""
           /\ ~last'.args.force) =>
              features_imp' = Some(st_compute_features_import(state, contributions[1]))
       /\ (/\ last'.op = "compute_features_import" /\ ~last'.args.force
           /\ features_imp \notin {Absent, None}) =>
              features_imp' = features_imp]_vars
\* the failure: after compile(features_groups={}) the call raises at line
\* 964 and the importance is still None
C28_ImportanceNotComputed ==
    /\ last.op = "compute_features_import" /\ last.err = "AttributeError"
    /\ ~last.args.force
    /\ features_groups = EmptyGroups
    /\ features_imp = None

====
